---- MODULE Spec2Model ----
(***************************************************************************)
(* A model of vlc-rc: the client of VLC's line-oriented TCP remote-control *)
(* interface (src/client.rs, src/client/socket.rs, src/client/media.rs,    *)
(* src/error.rs).                                                          *)
(*                                                                         *)
(* Text is modelled byte by byte: a string is a sequence of one-character  *)
(* strings, the stream from the player (`wire`) is one such sequence, and  *)
(* formatting, trimming and parsing are computed as the code computes      *)
(* them.  A facade operation runs as a sequence of steps (write, flush,    *)
(* read) of the function whose body is executing, `fn`, at position `pc`.  *)
(***************************************************************************)
EXTENDS Integers, Sequences, FiniteSets, TLC

VARIABLES
    wire,         \* bytes the player has sent and IoSocket.reader has not consumed
    wbuf,         \* command lines in IoSocket.writer (BufWriter) not yet transmitted
    op,           \* the facade operation called last ("none" before the first)
    arg,          \* the argument it was called with
    amt,          \* set_volume's local `amt` (after the clamp)
    fn,           \* the function whose body is executing ("none" when idle)
    pc,           \* the position in that body
    line,         \* the local `line` filled by the last read_line
    raw,          \* that line as the reader filled it, before trim_output
    buf,          \* the local `buf` filled by the last read_until
    sent,         \* the command lines the operation has written so far
    result,       \* what the operation returned (tag "Running" until then)
    prev,         \* the operation before it: its name, argument and result
    wasPlaying,   \* whether the player was playing when the operation was called
    vlcVolume,    \* the player: its volume
    vlcPlaying,   \* the player: whether a track is playing
    vlcTracks,    \* the player: the number of tracks in its playlist
    ops,          \* facade operations called so far
    envs,         \* changes the player made on its own so far
    ignores,      \* mutate commands the player has not applied so far
    fails,        \* flushes and reads that have failed so far
    outstanding,  \* command lines written minus read-side operations completed
    awaiting,     \* a query was written and its read has not been attempted
    changed,      \* the player changed on its own since the last operation returned
    conn,         \* the session's life: where connect stands, "open", "failed", "dropped"
    pending,      \* greeting bytes the player has yet to send
    eof,          \* the player has closed its side of the stream
    greeting,     \* the local `greeting` of connect: the bytes its read_until consumed
    shutRead,     \* shutdown(Shutdown::Read):  "none" while not attempted, "ok", "err"
    shutWrite,    \* shutdown(Shutdown::Write): "none" while not attempted, "ok", "err"
    raised        \* the teardown has surfaced a failure to the owner

vars == <<wire, wbuf, op, arg, amt, fn, pc, line, raw, buf, sent, result, prev, wasPlaying,
          vlcVolume, vlcPlaying, vlcTracks, ops, envs, ignores, fails,
          outstanding, awaiting, changed,
          conn, pending, eof, greeting, shutRead, shutWrite, raised>>

(***************************************************************************)
(* Bounds of the model.                                                    *)
(***************************************************************************)
MaxOps == 3
MaxEnv == 1
MaxIgnore == 1
MaxFail == 1

(***************************************************************************)
(* Program constants.                                                      *)
(***************************************************************************)
MIN_VOLUME == 0
MAX_VOLUME == 200
PROMPT == ">"
U8_MAX == 255
U16_MAX == 65535

NoArg == 0 - 1
NoVal == 0 - 1

(***************************************************************************)
(* Text.                                                                   *)
(***************************************************************************)
CR == "\r"
LF == "\n"
CRLF == <<CR, LF>>
DigitChars == <<"0", "1", "2", "3", "4", "5", "6", "7", "8", "9">>
IsDigit(c) == \E d \in 1..10 : DigitChars[d] = c
DigitVal(c) == (CHOOSE d \in 1..10 : DigitChars[d] = c) - 1
\* char::is_whitespace, as far as the characters of the model go
IsSpace(c) == c \in {" ", "\t", CR, LF}

\* `{}` of an unsigned integer: its decimal digits
RECURSIVE Digits(_)
Digits(n) ==
    IF n < 10 THEN <<DigitChars[n + 1]>>
    ELSE Digits(n \div 10) \o <<DigitChars[(n % 10) + 1]>>

\* str::trim: the string without its leading and trailing white space
TrimStart(s) ==
    LET keep == {k \in 1..Len(s) : ~IsSpace(s[k])}
    IN  IF keep = {} THEN <<>>
        ELSE SubSeq(s, CHOOSE k \in keep : \A j \in keep : k <= j, Len(s))
TrimEnd(s) ==
    LET keep == {k \in 1..Len(s) : ~IsSpace(s[k])}
    IN  IF keep = {} THEN <<>>
        ELSE SubSeq(s, 1, CHOOSE k \in keep : \A j \in keep : j <= k)
trim(s) == TrimEnd(TrimStart(s))

\* a trim_output that removes the leading prompts and then the leading spaces
trim_output_InTurn(s) ==
    LET rest(t, c) ==
            LET keep == {k \in 1..Len(t) : t[k] # c}
            IN  IF keep = {} THEN <<>>
                ELSE SubSeq(t, CHOOSE k \in keep : \A j \in keep : k <= j, Len(t))
    IN  rest(rest(s, PROMPT), " ")

\* socket.rs trim_output: remove one leading PROMPT or space and recurse
RECURSIVE trim_output(_)
trim_output(s) ==
    IF s # <<>> /\ (Head(s) = PROMPT \/ Head(s) = " ")
    THEN trim_output(Tail(s))
    ELSE s

\* The accumulation loop of <uN as FromStr>::from_str over the digits `s`,
\* with its overflow check against the type's maximum: NoVal is Err.
RECURSIVE ParseDigits(_, _, _)
ParseDigits(s, acc, max) ==
    IF s = <<>> THEN acc
    ELSE IF ~IsDigit(Head(s)) THEN NoVal
    ELSE IF acc > (max - DigitVal(Head(s))) \div 10 THEN NoVal
    ELSE ParseDigits(Tail(s), acc * 10 + DigitVal(Head(s)), max)

\* str::parse::<u16>: an optional '+', then digits only; empty, a lone sign,
\* any other character and a value above u16::MAX are errors (NoVal).
ParseU16(s) ==
    IF s = <<>> THEN NoVal
    ELSE IF Len(s) = 1 /\ Head(s) \in {"+", "-"} THEN NoVal
    ELSE IF Head(s) = "+" THEN ParseDigits(Tail(s), 0, U16_MAX)
    ELSE ParseDigits(s, 0, U16_MAX)

(***************************************************************************)
(* Grammar extractors (media.rs).  An extractor yields <<>> for None and   *)
(* <<record>> for Some(record).                                            *)
(***************************************************************************)
I32_MAX == 2147483647

\* the first position from i on where s holds c, or 0
FirstIndex(s, c, i) ==
    LET hits == {k \in i..Len(s) : s[k] = c}
    IN  IF hits = {} THEN 0 ELSE CHOOSE k \in hits : \A j \in hits : k <= j

\* str::lines: the pieces between line feeds, each without the carriage
\* return that ends it; a last piece without line feed counts when non-empty

StripCR(s) ==
    IF s # <<>> /\ s[Len(s)] = CR THEN SubSeq(s, 1, Len(s) - 1) ELSE s

RECURSIVE lines(_)
lines(s) ==
    IF s = <<>> THEN <<>>
    ELSE LET n == FirstIndex(s, LF, 1)
         IN  IF n = 0 THEN <<s>>
             ELSE <<StripCR(SubSeq(s, 1, n - 1))>> \o lines(SubSeq(s, n + 1, Len(s)))

\* the length of the run of white space (\s+) or of digits ([\d]+) at s[i]
RECURSIVE SpaceRun(_, _)
SpaceRun(s, i) ==
    IF i <= Len(s) /\ IsSpace(s[i]) THEN 1 + SpaceRun(s, i + 1) ELSE 0
RECURSIVE DigitRun(_, _)
DigitRun(s, i) ==
    IF i <= Len(s) /\ IsDigit(s[i]) THEN 1 + DigitRun(s, i + 1) ELSE 0

\* a duration pattern that takes any byte for a colon (\d\d.\d\d.\d\d)
DurationAt_AnySeparator(s, i) ==
    /\ i + 7 <= Len(s)
    /\ \A k \in {0, 1, 3, 4, 6, 7} : IsDigit(s[i + k])

\* \d\d:\d\d:\d\d at s[i]
DurationAt(s, i) ==
    /\ i + 7 <= Len(s)
    /\ \A k \in {0, 1, 3, 4, 6, 7} : IsDigit(s[i + k])
    /\ s[i + 2] = ":"
    /\ s[i + 5] = ":"

I32_MIN == (0 - I32_MAX) - 1
\* the digits of 2147483648, the magnitude of i32::MIN
I32MinDigits == <<"2", "1", "4", "7", "4", "8", "3", "6", "4", "8">>

\* a numeral without its leading zeros (one digit at least is kept)
StripZeros(s) ==
    LET keep == {k \in 1..Len(s) : s[k] # "0"}
    IN  IF keep = {} THEN SubSeq(s, Len(s), Len(s))
        ELSE SubSeq(s, CHOOSE k \in keep : \A j \in keep : k <= j, Len(s))

\* i32::from_str of an index capture: an optional sign, then digits; the
\* values run from i32::MIN to i32::MAX
ParseI32(s) ==
    IF s = <<>> THEN <<>>
    ELSE IF Head(s) = "-"
    THEN LET m == ParseDigits(Tail(s), 0, I32_MAX)
         IN  IF Tail(s) = <<>> THEN <<>>
             ELSE IF m # NoVal THEN <<0 - m>>
             ELSE IF StripZeros(Tail(s)) = I32MinDigits THEN <<I32_MIN>>
             ELSE <<>>
    ELSE LET t == IF Head(s) = "+" THEN Tail(s) ELSE s
             m == ParseDigits(t, 0, I32_MAX)
         IN  IF t = <<>> \/ m = NoVal THEN <<>> ELSE <<m>>

\* a Track pattern whose title stops at the first duration (a lazy `.+?`)
TrackAt_FirstDuration(s, i) ==
    LET w1 == SpaceRun(s, i + 1)
        p1 == i + 1 + w1
        p2 == IF p1 <= Len(s) /\ s[p1] = "*" THEN p1 + 1 ELSE p1
        d  == DigitRun(s, p2)
        p3 == p2 + d
        w2 == SpaceRun(s, p3)
        p4 == p3 + w2
        w3 == SpaceRun(s, p4 + 1)
        Ends(k) == {e \in (p4 + 1 + k)..Len(s) :
                       /\ e + 2 <= Len(s)
                       /\ IsSpace(s[e + 1])
                       /\ s[e + 2] = "("
                       /\ DurationAt(s, e + 3)}
        ks == {k \in 1..w3 : Ends(k) # {}}
    IN  IF /\ s[i] = "|"
           /\ w1 >= 1
           /\ d >= 1
           /\ w2 >= 1
           /\ p4 <= Len(s)
           /\ s[p4] = "-"
           /\ ks # {}
        THEN LET k == CHOOSE x \in ks : \A y \in ks : y <= x
                 e == CHOOSE x \in Ends(k) : \A y \in Ends(k) : x <= y
             IN  <<[index  |-> SubSeq(s, p2, p3 - 1),
                    title  |-> SubSeq(s, p4 + 1 + k, e),
                    length |-> SubSeq(s, e + 3, e + 10)]>>
        ELSE <<>>

\* The match of Track's pattern that starts at s[i], as the regex engine
\* picks it (every repetition greedy, earlier ones first), or <<>>:
\*   \| \s+ [\*]? (index [\d]+) \s+ - \s+ (title .+) \s \( (length \d\d:\d\d:\d\d) .*
TrackAt(s, i) ==
    LET w1 == SpaceRun(s, i + 1)
        p1 == i + 1 + w1
        p2 == IF p1 <= Len(s) /\ s[p1] = "*" THEN p1 + 1 ELSE p1
        d  == DigitRun(s, p2)
        p3 == p2 + d
        w2 == SpaceRun(s, p3)
        p4 == p3 + w2
        w3 == SpaceRun(s, p4 + 1)
        \* the title s[t..e] after k white-space characters
        Ends(k) == {e \in (p4 + 1 + k)..Len(s) :
                       /\ e + 2 <= Len(s)
                       /\ IsSpace(s[e + 1])
                       /\ s[e + 2] = "("
                       /\ DurationAt(s, e + 3)}
        ks == {k \in 1..w3 : Ends(k) # {}}
    IN  IF /\ s[i] = "|"
           /\ w1 >= 1
           /\ d >= 1
           /\ w2 >= 1
           /\ p4 <= Len(s)
           /\ s[p4] = "-"
           /\ ks # {}
        THEN LET k == CHOOSE x \in ks : \A y \in ks : y <= x
                 e == CHOOSE x \in Ends(k) : \A y \in Ends(k) : y <= x
             IN  <<[index  |-> SubSeq(s, p2, p3 - 1),
                    title  |-> SubSeq(s, p4 + 1 + k, e),
                    length |-> SubSeq(s, e + 3, e + 10)]>>
        ELSE <<>>

\* Regex::captures: the match at the leftmost position that has one
TrackCaptures(s, i) ==
    LET starts == {k \in i..Len(s) : TrackAt(s, k) # <<>>}
    IN  IF starts = {} THEN <<>>
        ELSE TrackAt(s, CHOOSE k \in starts : \A j \in starts : k <= j)

\* <Track as FromParts>::from_parts
TrackFromParts(parts) ==
    LET caps == TrackCaptures(parts, 1)
    IN  IF caps = <<>> \/ ParseI32(caps[1].index) = <<>> THEN <<>>
        ELSE <<[index  |-> ParseI32(caps[1].index)[1],
                title  |-> caps[1].title,
                length |-> caps[1].length]>>

\* a Subtitle pattern whose index takes no sign ([\d]+)
SubtitleAt_Unsigned(s, i) ==
    LET w1 == SpaceRun(s, i + 1)
        p1 == i + 1 + w1
        d  == DigitRun(s, p1)
        p3 == p1 + d
        w2 == SpaceRun(s, p3)
        p4 == p3 + w2
        w3 == SpaceRun(s, p4 + 1)
        ks == {k \in 1..w3 : p4 + 1 + k <= Len(s)}
    IN  IF /\ s[i] = "|"
           /\ w1 >= 1
           /\ d >= 1
           /\ w2 >= 1
           /\ p4 <= Len(s)
           /\ s[p4] = "-"
           /\ ks # {}
        THEN LET k == CHOOSE x \in ks : \A y \in ks : y <= x
             IN  <<[index |-> SubSeq(s, p1, p3 - 1),
                    title |-> SubSeq(s, p4 + 1 + k, Len(s))]>>
        ELSE <<>>

\* The match of Subtitle's pattern that starts at s[i], or <<>>:
\*   \| \s+ (index [\-]?[\d]+) \s+ - \s+ (title .+)
SubtitleAt(s, i) ==
    LET w1 == SpaceRun(s, i + 1)
        p1 == i + 1 + w1
        p2 == IF p1 <= Len(s) /\ s[p1] = "-" THEN p1 + 1 ELSE p1
        d  == DigitRun(s, p2)
        p3 == p2 + d
        w2 == SpaceRun(s, p3)
        p4 == p3 + w2
        w3 == SpaceRun(s, p4 + 1)
        ks == {k \in 1..w3 : p4 + 1 + k <= Len(s)}
    IN  IF /\ s[i] = "|"
           /\ w1 >= 1
           /\ d >= 1
           /\ w2 >= 1
           /\ p4 <= Len(s)
           /\ s[p4] = "-"
           /\ ks # {}
        THEN LET k == CHOOSE x \in ks : \A y \in ks : y <= x
             IN  <<[index |-> SubSeq(s, p1, p3 - 1),
                    title |-> SubSeq(s, p4 + 1 + k, Len(s))]>>
        ELSE <<>>

SubtitleCaptures(s, i) ==
    LET starts == {k \in i..Len(s) : SubtitleAt(s, k) # <<>>}
    IN  IF starts = {} THEN <<>>
        ELSE SubtitleAt(s, CHOOSE k \in starts : \A j \in starts : k <= j)

\* <Subtitle as FromParts>::from_parts
SubtitleFromParts(parts) ==
    LET caps == SubtitleCaptures(parts, 1)
    IN  IF caps = <<>> \/ ParseI32(caps[1].index) = <<>> THEN <<>>
        ELSE <<[index |-> ParseI32(caps[1].index)[1],
                title |-> caps[1].title]>>

\* out.lines().filter_map(Track::from_parts).collect()
RECURSIVE CollectTracks(_)
CollectTracks(ls) ==
    IF ls = <<>> THEN <<>>
    ELSE TrackFromParts(Head(ls)) \o CollectTracks(Tail(ls))

\* out.lines().filter_map(Subtitle::from_parts).collect()
RECURSIVE CollectSubtitles(_)
CollectSubtitles(ls) ==
    IF ls = <<>> THEN <<>>
    ELSE SubtitleFromParts(Head(ls)) \o CollectSubtitles(Tail(ls))

(***************************************************************************)
(* The player's side of the wire protocol: written command lines are       *)
(* answered in order, every answer ends with the prompt "> ", a query is   *)
(* answered with its text first and a mutate command with the prompt only. *)
(***************************************************************************)
Cmd(name, a) == [name |-> name, arg |-> a]

Prompt == <<PROMPT, " ">>
\* the greeting of the player: a banner, then its first prompt
Banner == <<"V", "L", "C", CR, LF>>
GreetingText == Banner \o Prompt
\* what is left of the greeting once connect has read up to the first PROMPT
AfterGreeting == <<" ">>

PlaylistHead == <<"+", "-", "-", "-", "-", "[", " ", "P", "l", "a", "y", "l", "i", "s",
                  "t", " ", "-", " ", "p", "l", "a", "y", "l", "i", "s", "t", " ", "]">>
PlaylistFoot == <<"+", "-", "-", "-", "-", "[", " ", "E", "n", "d", " ", "o", "f", " ",
                  "p", "l", "a", "y", "l", "i", "s", "t", " ", "]">>
PlaylistNode == <<"|", " ", "1", " ", "-", " ", "P", "l", "a", "y", "l", "i", "s", "t">>
LibraryNode == <<"|", " ", "2", " ", "-", " ", "M", "e", "d", "i", "a", " ",
                 "L", "i", "b", "r", "a", "r", "y">>
TrackRow == <<"|", " ", "*", "1", " ", "-", " ", "a", " ",
              "(", "0", "0", ":", "0", "0", ":", "0", "1", ")">>
SubtitleHead == <<"+", "-", "-", "-", "-", "[", " ", "s", "p", "u", "-", "e", "s", " ",
                  "]">>
SubtitleFoot == <<"+", "-", "-", "-", "-", "[", " ", "e", "n", "d", " ", "o", "f", " ",
                  "s", "p", "u", "-", "e", "s", " ", "]">>
SubtitleRow == <<"|", " ", "-", "1", " ", "-", " ", "D", "i", "s", "a", "b", "l", "e", " ", "*">>
TitleText == <<"a">>
TimeText == <<"7">>

RECURSIVE Rows(_, _)
Rows(row, n) == IF n = 0 THEN <<>> ELSE row \o CRLF \o Rows(row, n - 1)

\* the text of the playlist listing and of the subtitle listing
PlaylistText(tracks) ==
    PlaylistHead \o CRLF \o PlaylistNode \o CRLF \o Rows(TrackRow, tracks)
        \o LibraryNode \o CRLF \o PlaylistFoot \o CRLF
SubtitleText(playing) ==
    SubtitleHead \o CRLF \o Rows(SubtitleRow, IF playing THEN 1 ELSE 0)
        \o SubtitleFoot \o CRLF

\* The player handles one command line.  st is its state and the bytes it
\* has put out; applied tells whether a mutate command takes effect.
PlayerHandle(c, st, applied) ==
    CASE c.name = "volume" /\ c.arg = NoArg ->
            [st EXCEPT !.out = @ \o Digits(st.volume) \o CRLF \o Prompt]
      [] c.name = "volume" /\ c.arg # NoArg ->
            [st EXCEPT !.volume = IF applied THEN c.arg ELSE @,
                       !.out = @ \o Prompt]
      [] c.name = "is_playing" ->
            [st EXCEPT !.out = @ \o (IF st.playing THEN <<"1">> ELSE <<"0">>)
                                 \o CRLF \o Prompt]
      [] c.name = "play" ->
            [st EXCEPT !.playing = IF applied /\ st.tracks > 0 THEN TRUE ELSE @,
                       !.out = @ \o Prompt]
      [] c.name = "stop" ->
            [st EXCEPT !.playing = IF applied THEN FALSE ELSE @,
                       !.out = @ \o Prompt]
      [] c.name = "get_time" ->
            [st EXCEPT !.out = @ \o (IF st.playing THEN TimeText ELSE <<>>)
                                 \o CRLF \o Prompt]
      [] c.name = "get_title" ->
            [st EXCEPT !.out = @ \o (IF st.playing THEN TitleText ELSE <<>>)
                                 \o CRLF \o Prompt]
      [] c.name = "playlist" ->
            [st EXCEPT !.out = @ \o PlaylistText(st.tracks) \o Prompt]
      [] c.name = "strack" ->
            [st EXCEPT !.out = @ \o SubtitleText(st.playing) \o Prompt]
      [] OTHER ->  \* pause, seek, next, prev, fullscreen
            [st EXCEPT !.out = @ \o Prompt]

RECURSIVE PlayerRun(_, _, _)
PlayerRun(cmds, st, applied) ==
    IF cmds = <<>> THEN st
    ELSE PlayerRun(Tail(cmds), PlayerHandle(Head(cmds), st, applied), applied)

IsMutate(c) == c.name \in {"play", "stop"} \/ (c.name = "volume" /\ c.arg # NoArg)

(***************************************************************************)
(* Results (lib.rs Result, error.rs Error).                                *)
(***************************************************************************)
Res(tag, val, txt, rows) == [tag |-> tag, val |-> val, txt |-> txt, rows |-> rows]
NoResult == Res("None", NoVal, <<>>, <<>>)
Running == Res("Running", NoVal, <<>>, <<>>)
Ok(v) == Res("Ok", v, <<>>, <<>>)
OkUnit == Ok(NoVal)
OkRows(r) == Res("Ok", Len(r), <<>>, r)
\* impl From<IoError> for Error
FromIoError == Res("Io", NoVal, <<>>, <<>>)
\* impl From<ParseIntError> for Error
FromParseIntError == Res("ParseErr", NoVal, <<>>, <<>>)

(***************************************************************************)
(* The inputs of the model.                                                *)
(***************************************************************************)
Volumes == {25, 300, 65536}     \* volumes the player may have on its own
Amts == {25, 200, 255}          \* arguments of set_volume (u8)
Secs == {5}                     \* arguments of forward and rewind (u32)

\* the life of a session that connect has returned and nobody has dropped
life == <<conn, pending, eof, greeting, shutRead, shutWrite, raised>>

Connected ==
    /\ conn = "open"
    /\ pending = <<>>
    /\ eof = FALSE
    /\ greeting = Banner \o <<PROMPT>>
    /\ shutRead = "none"
    /\ shutWrite = "none"
    /\ raised = FALSE

Init ==
    /\ Connected
    /\ wire = AfterGreeting
    /\ wbuf = <<>>
    /\ op = "none"
    /\ arg = NoArg
    /\ amt = MIN_VOLUME
    /\ fn = "none"
    /\ pc = "idle"
    /\ line = <<>>
    /\ raw = <<>>
    /\ buf = <<>>
    /\ sent = <<>>
    /\ result = NoResult
    /\ prev = [op |-> "none", arg |-> NoArg, tag |-> "None", changed |-> FALSE]
    /\ vlcVolume \in Volumes
    /\ vlcTracks \in {0, 1}
    /\ vlcPlaying \in {p \in BOOLEAN : p => vlcTracks > 0}
    /\ wasPlaying = vlcPlaying
    /\ ops = 0
    /\ envs = 0
    /\ ignores = 0
    /\ fails = 0
    /\ outstanding = 0
    /\ awaiting = FALSE
    /\ changed = FALSE

player == <<vlcVolume, vlcPlaying, vlcTracks>>
budget == <<ops, envs, ignores, fails>>
call == <<op, arg, amt, prev, wasPlaying, changed>>
local == <<line, raw, buf>>

(***************************************************************************)
(* Control: where the client goes on after a step.                         *)
(***************************************************************************)
Done(r) == [fn |-> "none", pc |-> "idle", result |-> r]
Goto(f, p) == [fn |-> f, pc |-> p, result |-> Running]
\* (a step of an operation leaves the life of the session as it is)
Control(k) ==
    /\ fn' = k.fn
    /\ pc' = k.pc
    /\ result' = k.result
    /\ UNCHANGED life

\* a set_volume without the clamp
ClampAmt_None(a) == a

\* set_volume: `if amt > MAX_VOLUME { amt = MAX_VOLUME; }`
ClampAmt(a) == IF a > MAX_VOLUME THEN MAX_VOLUME ELSE a

\* a set_volume whose loop queries again when the query has failed
set_volume_while_Retries(r) ==
    IF r.tag # "Ok" THEN Goto("get_volume", "write")
    ELSE IF r.val # amt THEN Goto("set_volume", "write")
    ELSE Done(OkUnit)

\* set_volume: `while self.get_volume()? != amt`
set_volume_while(r) ==
    IF r.tag # "Ok" THEN Done(r)
    ELSE IF r.val # amt THEN Goto("set_volume", "write")
    ELSE Done(OkUnit)

\* a play that goes on to its loop whatever the playlist holds
play_if_Always(r) ==
    IF r.tag # "Ok" THEN Done(r)
    ELSE Goto("is_playing", "write")

\* play: `if !self.playlist()?.is_empty()`
play_if(r) ==
    IF r.tag # "Ok" THEN Done(r)
    ELSE IF r.rows # <<>> THEN Goto("is_playing", "write")
    ELSE Done(OkUnit)

\* play: `while !self.is_playing()?`
play_while(r) ==
    IF r.tag # "Ok" THEN Done(r)
    ELSE IF r.val # 1 THEN Goto("play", "write")
    ELSE Done(OkUnit)

\* a stop that gives up once it has written "stop"
stop_while_OneAttempt(r) ==
    IF r.tag # "Ok" THEN Done(r)
    ELSE IF r.val = 1 /\ \A i \in 1..Len(sent) : sent[i].name # "stop"
    THEN Goto("stop", "write")
    ELSE Done(OkUnit)

\* stop: `while self.is_playing()?`
stop_while(r) ==
    IF r.tag # "Ok" THEN Done(r)
    ELSE IF r.val = 1 THEN Goto("stop", "write")
    ELSE Done(OkUnit)

\* a pause that writes "pause" alone
pause_if_NoPlay(r) ==
    IF r.tag # "Ok" THEN Done(r)
    ELSE IF r.val = 1 THEN Goto("pause", "write_pause")
    ELSE Done(OkUnit)

\* pause: `if self.is_playing()?`
pause_if(r) ==
    IF r.tag # "Ok" THEN Done(r)
    ELSE IF r.val = 1 THEN Goto("pause", "write_play")
    ELSE Done(OkUnit)

\* the function `fn` returns r to its caller
Return(r) ==
    Control(CASE op = fn -> Done(r)
              [] op = "set_volume" /\ fn = "get_volume" -> set_volume_while(r)
              [] op = "play" /\ fn = "playlist" -> play_if(r)
              [] op = "play" /\ fn = "is_playing" -> play_while(r)
              [] op = "stop" /\ fn = "is_playing" -> stop_while(r)
              [] op = "pause" /\ fn = "is_playing" -> pause_if(r))

(***************************************************************************)
(* The session's primitives (socket.rs).                                   *)
(***************************************************************************)
\* writeln!(self.socket, ...): the line goes into the BufWriter
WriteLine(c) ==
    /\ wbuf' = Append(wbuf, c)
    /\ sent' = Append(sent, c)
    /\ outstanding' = outstanding + 1

\* self.socket.flush() succeeds: the player receives the buffered lines,
\* handles them in order and answers
FlushOk ==
    \E applied \in BOOLEAN :
        /\ ~applied => (ignores < MaxIgnore /\ \E i \in 1..Len(wbuf) : IsMutate(wbuf[i]))
        /\ LET st == PlayerRun(wbuf, [volume |-> vlcVolume, playing |-> vlcPlaying,
                                      tracks |-> vlcTracks, out |-> <<>>], applied)
           IN  /\ wire' = wire \o st.out
               /\ vlcVolume' = st.volume
               /\ vlcPlaying' = st.playing
               /\ vlcTracks' = st.tracks
        /\ ignores' = IF applied THEN ignores ELSE ignores + 1
        /\ wbuf' = <<>>
        /\ UNCHANGED <<ops, envs, fails>>

\* self.socket.flush() fails: the lines stay in the BufWriter
FlushErr ==
    /\ fails < MaxFail
    /\ fails' = fails + 1
    /\ UNCHANGED <<wire, wbuf, player, ops, envs, ignores>>

\* a read_line that hands on the line as the reader filled it
ReadLineOk_NoTrim ==
    LET n == FirstIndex(wire, LF, 1)
    IN  /\ n > 0
        /\ raw' = SubSeq(wire, 1, n)
        /\ line' = raw'
        /\ UNCHANGED buf
        /\ wire' = SubSeq(wire, n + 1, Len(wire))
        /\ outstanding' = IF outstanding > 0 THEN outstanding - 1 ELSE 0
        /\ awaiting' = FALSE

\* <IoSocket as BufRead>::read_line succeeds: the bytes up to and including
\* the next line feed, then trim_output
ReadLineOk ==
    LET n == FirstIndex(wire, LF, 1)
    IN  /\ n > 0
        /\ raw' = SubSeq(wire, 1, n)
        /\ line' = trim_output(raw')
        /\ UNCHANGED buf
        /\ wire' = SubSeq(wire, n + 1, Len(wire))
        /\ outstanding' = IF outstanding > 0 THEN outstanding - 1 ELSE 0
        /\ awaiting' = FALSE

\* self.socket.read_until(PROMPT, &mut buf) succeeds: the bytes up to and
\* including the next PROMPT
ReadUntilOk ==
    LET n == FirstIndex(wire, PROMPT, 1)
    IN  /\ n > 0
        /\ buf' = SubSeq(wire, 1, n)
        /\ UNCHANGED <<line, raw>>
        /\ wire' = SubSeq(wire, n + 1, Len(wire))
        /\ outstanding' = IF outstanding > 0 THEN outstanding - 1 ELSE 0
        /\ awaiting' = FALSE

\* a read fails (the read timeout passes): nothing is consumed, and what the
\* player answers stays in the stream
ReadErr ==
    /\ fails < MaxFail
    /\ fails' = fails + 1
    /\ line' = <<>>
    /\ raw' = <<>>
    /\ awaiting' = FALSE
    /\ UNCHANGED <<wire, buf, outstanding>>

(***************************************************************************)
(* The facade (client.rs).  Each function is one action; its disjuncts are *)
(* the steps of its body.                                                  *)
(***************************************************************************)
\* the write step of a query function f: writeln!(self.socket, c)
QueryWrite(f, c) ==
    /\ pc = "write"
    /\ WriteLine(c)
    /\ awaiting' = TRUE
    /\ Control(Goto(f, "flush"))
    /\ UNCHANGED <<wire, local, player, budget, call>>

\* a query function that returns after its flush without reading the answer
QueryFlushOk_SkipsRead(f) ==
    /\ pc = "flush"
    /\ FlushOk
    /\ Return(Ok(0))
    /\ UNCHANGED <<local, sent, outstanding, awaiting, call>>

\* the flush step of a query function f: self.socket.flush()?
QueryFlushOk(f) ==
    /\ pc = "flush"
    /\ FlushOk
    /\ Control(Goto(f, "read"))
    /\ UNCHANGED <<local, sent, outstanding, awaiting, call>>

QueryFlushErr ==
    /\ pc = "flush"
    /\ FlushErr
    /\ awaiting' = FALSE
    /\ Return(FromIoError)
    /\ UNCHANGED <<local, sent, outstanding, call>>

\* the read step of a query function fails: `?` returns the error
QueryReadErr ==
    /\ pc = "read"
    /\ ReadErr
    /\ Return(FromIoError)
    /\ UNCHANGED <<wbuf, sent, player, ops, envs, ignores, call>>

\* the steps of a function f that writes c and reads nothing back; next is
\* where the client goes on when the flush has succeeded
MutateWrite(f, c) ==
    /\ pc = "write"
    /\ WriteLine(c)
    /\ Control(Goto(f, "flush"))
    /\ UNCHANGED <<wire, local, awaiting, player, budget, call>>

MutateFlushOk(next) ==
    /\ pc = "flush"
    /\ FlushOk
    /\ Control(next)
    /\ UNCHANGED <<local, sent, outstanding, awaiting, call>>

MutateFlushErr ==
    /\ pc = "flush"
    /\ FlushErr
    /\ Control(Done(FromIoError))
    /\ UNCHANGED <<local, sent, outstanding, awaiting, call>>

\* a get_volume that casts to u8 without the clamp
GetVolumeResult_NoClamp(l) ==
    LET volume == ParseU16(trim(l))
    IN  IF volume = NoVal THEN FromParseIntError
        ELSE Ok(volume % (U8_MAX + 1))

\* a get_volume that takes a line that does not parse for volume 0
GetVolumeResult_Default(l) ==
    LET volume == ParseU16(trim(l))
    IN  IF volume = NoVal THEN Ok(0)
        ELSE IF volume <= MAX_VOLUME THEN Ok(volume % (U8_MAX + 1))
        ELSE Ok(MAX_VOLUME)

\* get_volume: `line.trim().parse::<u16>()?`, then the clamp to MAX_VOLUME
GetVolumeResult(l) ==
    LET volume == ParseU16(trim(l))
    IN  IF volume = NoVal THEN FromParseIntError
        ELSE IF volume <= MAX_VOLUME THEN Ok(volume % (U8_MAX + 1))
        ELSE Ok(MAX_VOLUME)

get_volume ==
    /\ fn = "get_volume"
    /\ \/ QueryWrite("get_volume", Cmd("volume", NoArg))
       \/ QueryFlushOk("get_volume")
       \/ QueryFlushErr
       \/ /\ pc = "read"
          /\ ReadLineOk
          /\ Return(GetVolumeResult(line'))
          /\ UNCHANGED <<wbuf, sent, player, budget, call>>
       \/ QueryReadErr

set_volume ==
    /\ fn = "set_volume"
    /\ \/ MutateWrite("set_volume", Cmd("volume", amt))
       \/ MutateFlushOk(Goto("get_volume", "write"))
       \/ MutateFlushErr

\* is_playing: `Ok(line.trim() == "1")`
IsPlayingResult(l) == Ok(IF trim(l) = <<"1">> THEN 1 ELSE 0)

is_playing ==
    /\ fn = "is_playing"
    /\ \/ QueryWrite("is_playing", Cmd("is_playing", NoArg))
       \/ QueryFlushOk("is_playing")
       \/ QueryFlushErr
       \/ /\ pc = "read"
          /\ ReadLineOk
          /\ Return(IsPlayingResult(line'))
          /\ UNCHANGED <<wbuf, sent, player, budget, call>>
       \/ QueryReadErr

play ==
    /\ fn = "play"
    /\ \/ MutateWrite("play", Cmd("play", NoArg))
       \/ MutateFlushOk(Goto("is_playing", "write"))
       \/ MutateFlushErr

stop ==
    /\ fn = "stop"
    /\ \/ MutateWrite("stop", Cmd("stop", NoArg))
       \/ MutateFlushOk(Goto("is_playing", "write"))
       \/ MutateFlushErr

pause ==
    /\ fn = "pause"
    /\ \/ /\ pc = "write_play"
          /\ WriteLine(Cmd("play", NoArg))
          /\ Control(Goto("pause", "write_pause"))
          /\ UNCHANGED <<wire, local, awaiting, player, budget, call>>
       \/ /\ pc = "write_pause"
          /\ WriteLine(Cmd("pause", NoArg))
          /\ Control(Goto("pause", "flush"))
          /\ UNCHANGED <<wire, local, awaiting, player, budget, call>>
       \/ MutateFlushOk(Done(OkUnit))
       \/ MutateFlushErr

\* playlist: the tracks of the block read
PlaylistResult(block) == OkRows(CollectTracks(lines(block)))

playlist ==
    /\ fn = "playlist"
    /\ \/ QueryWrite("playlist", Cmd("playlist", NoArg))
       \/ QueryFlushOk("playlist")
       \/ QueryFlushErr
       \/ /\ pc = "read"
          /\ ReadUntilOk
          /\ Return(PlaylistResult(buf'))
          /\ UNCHANGED <<wbuf, sent, player, budget, call>>
       \/ QueryReadErr

\* subtitles: the subtitle tracks of the block read
SubtitlesResult(block) == OkRows(CollectSubtitles(lines(block)))

subtitles ==
    /\ fn = "subtitles"
    /\ \/ QueryWrite("subtitles", Cmd("strack", NoArg))
       \/ QueryFlushOk("subtitles")
       \/ QueryFlushErr
       \/ /\ pc = "read"
          /\ ReadUntilOk
          /\ Return(SubtitlesResult(buf'))
          /\ UNCHANGED <<wbuf, sent, player, budget, call>>
       \/ QueryReadErr

U32MaxDigits == <<"4", "2", "9", "4", "9", "6", "7", "2", "9", "5">>

\* str::parse::<u32> as get_time uses it: an optional '+', then digits only;
\* empty, a lone sign, any other character and a value above u32::MAX
\* (4294967295) are errors.  <<>> stands for Err and <<numeral>> for Ok, the
\* value being kept as its decimal numeral without leading zeros.
ParseU32(s) ==
    LET t == IF s # <<>> /\ Head(s) = "+" THEN Tail(s) ELSE s
    IN  IF t = <<>> \/ \E k \in 1..Len(t) : ~IsDigit(t[k]) THEN <<>>
        ELSE IF Len(StripZeros(t)) > Len(U32MaxDigits) THEN <<>>
        ELSE IF /\ Len(StripZeros(t)) = Len(U32MaxDigits)
                /\ \E k \in 1..Len(U32MaxDigits) :
                      /\ DigitVal(StripZeros(t)[k]) > DigitVal(U32MaxDigits[k])
                      /\ \A j \in 1..(k - 1) : StripZeros(t)[j] = U32MaxDigits[j]
        THEN <<>>
        ELSE <<StripZeros(t)>>

\* a get_time that propagates the parse failure (`parse()?`)
GetTimeResult_ParseError(l) ==
    IF ParseU32(trim(l)) = <<>> THEN FromParseIntError
    ELSE Res("Ok", 1, ParseU32(trim(l))[1], <<>>)

\* get_time: `Ok(line.trim().parse().ok())`; Some(seconds) has val 1 and the
\* numeral of the seconds, None has val 0
GetTimeResult(l) ==
    IF ParseU32(trim(l)) = <<>> THEN Res("Ok", 0, <<>>, <<>>)
    ELSE Res("Ok", 1, ParseU32(trim(l))[1], <<>>)

get_time ==
    /\ fn = "get_time"
    /\ \/ QueryWrite("get_time", Cmd("get_time", NoArg))
       \/ QueryFlushOk("get_time")
       \/ QueryFlushErr
       \/ /\ pc = "read"
          /\ ReadLineOk
          /\ Return(GetTimeResult(line'))
          /\ UNCHANGED <<wbuf, sent, player, budget, call>>
       \/ QueryReadErr

\* a get_title that tests the line as read, not the trimmed line
GetTitleResult_TestsUntrimmed(l) ==
    IF Len(l) # 0 THEN Res("Ok", 1, trim(l), <<>>) ELSE Res("Ok", 0, <<>>, <<>>)

\* get_title: Some(trimmed line) has val 1, None has val 0
GetTitleResult(l) ==
    IF Len(trim(l)) # 0 THEN Res("Ok", 1, trim(l), <<>>) ELSE Res("Ok", 0, <<>>, <<>>)

get_title ==
    /\ fn = "get_title"
    /\ \/ QueryWrite("get_title", Cmd("get_title", NoArg))
       \/ QueryFlushOk("get_title")
       \/ QueryFlushErr
       \/ /\ pc = "read"
          /\ ReadLineOk
          /\ Return(GetTitleResult(line'))
          /\ UNCHANGED <<wbuf, sent, player, budget, call>>
       \/ QueryReadErr

forward ==
    /\ fn = "forward"
    /\ \/ MutateWrite("forward", Cmd("seek", arg))
       \/ MutateFlushOk(Done(OkUnit))
       \/ MutateFlushErr

rewind ==
    /\ fn = "rewind"
    /\ \/ MutateWrite("rewind", Cmd("seek", 0 - arg))
       \/ MutateFlushOk(Done(OkUnit))
       \/ MutateFlushErr

next ==
    /\ fn = "next"
    /\ \/ MutateWrite("next", Cmd("next", NoArg))
       \/ MutateFlushOk(Done(OkUnit))
       \/ MutateFlushErr

prev_ ==
    /\ fn = "prev"
    /\ \/ MutateWrite("prev", Cmd("prev", NoArg))
       \/ MutateFlushOk(Done(OkUnit))
       \/ MutateFlushErr

\* fullscreen(on): on is 1, off is 0
fullscreen ==
    /\ fn = "fullscreen"
    /\ \/ MutateWrite("fullscreen", Cmd("fullscreen", arg))
       \/ MutateFlushOk(Done(OkUnit))
       \/ MutateFlushErr

(***************************************************************************)
(* The caller and the player's own changes.                                *)
(***************************************************************************)
Facade == {"get_volume", "set_volume", "is_playing", "play", "stop", "pause",
           "get_time", "get_title", "forward", "rewind", "next", "prev",
           "fullscreen", "playlist", "subtitles"}

ArgsOf(o) ==
    CASE o = "set_volume" -> Amts
      [] o \in {"forward", "rewind"} -> Secs
      [] o = "fullscreen" -> {0, 1}
      [] OTHER -> {NoArg}

\* the function whose body a facade operation enters first
Entry(o) ==
    CASE o = "set_volume" -> "get_volume"
      [] o = "play" -> "playlist"
      [] o \in {"stop", "pause"} -> "is_playing"
      [] OTHER -> o

\* the caller calls facade operation o with argument a
Call(o, a) ==
    /\ pc = "idle"
    /\ ops < MaxOps
    /\ ops' = ops + 1
    /\ op' = o
    /\ arg' = a
    /\ amt' = IF o = "set_volume" THEN ClampAmt(a) ELSE MIN_VOLUME
    /\ Control(Goto(Entry(o), "write"))
    /\ line' = <<>>
    /\ raw' = <<>>
    /\ buf' = <<>>
    /\ sent' = <<>>
    /\ wasPlaying' = vlcPlaying
    /\ prev' = [op |-> op, arg |-> arg, tag |-> result.tag, changed |-> changed]
    /\ changed' = FALSE
    /\ UNCHANGED <<wire, wbuf, player, envs, ignores, fails, outstanding, awaiting>>

\* between two operations the player changes its volume, or starts or ends
\* playback, on its own
PlayerChange ==
    /\ pc = "idle"
    /\ envs < MaxEnv
    /\ envs' = envs + 1
    /\ changed' = TRUE
    /\ \/ /\ vlcVolume' \in Volumes \ {vlcVolume}
          /\ UNCHANGED <<vlcPlaying, vlcTracks>>
       \/ /\ vlcTracks > 0
          /\ vlcPlaying' = ~vlcPlaying
          /\ UNCHANGED <<vlcVolume, vlcTracks>>
    /\ UNCHANGED <<wire, wbuf, op, arg, amt, fn, pc, local, sent, result, prev, wasPlaying,
                   ops, ignores, fails, outstanding, awaiting, life>>

Next ==
    \/ \E o \in Facade : \E a \in ArgsOf(o) : Call(o, a)
    \/ get_volume
    \/ set_volume
    \/ is_playing
    \/ play
    \/ stop
    \/ pause
    \/ get_time
    \/ get_title
    \/ forward
    \/ rewind
    \/ next
    \/ prev_
    \/ fullscreen
    \/ playlist
    \/ subtitles
    \/ PlayerChange

Spec == Init /\ [][Next]_vars

TypeOK ==
    /\ pc \in {"idle", "write", "flush", "read", "write_play", "write_pause"}
    /\ fn \in Facade \cup {"none"}
    /\ outstanding >= 0

(***************************************************************************)
(* A session at the point where a query function has written and flushed   *)
(* its command and the player's answer is in the stream: the answer is any *)
(* text of AnswersOf, whatever player sent it.                             *)
(***************************************************************************)
MaxPrefix == 4

\* the runs of prompts and spaces, in any interleaving, up to MaxPrefix bytes
Prefixes == UNION {[1..n -> {PROMPT, " "}] : n \in 0..MaxPrefix}

\* the texts of an answer line, without the line ending
LineBodies ==
    {<<"2", "5">>,
     <<"3", "0", "0">>,
     <<"6", "5", "5", "3", "6">>,
     <<"0", "0", "7">>,
     <<"+", "7">>,
     <<"-", "1">>,
     <<"0">>,
     <<"1">>,
     <<"4", "2", "9", "4", "9", "6", "7", "2", "9", "5">>,
     <<"4", "2", "9", "4", "9", "6", "7", "2", "9", "6">>,
     <<>>,
     <<"a">>,
     <<"a", " ", "b">>,
     <<"2", " ", "5">>,
     <<"2", "5", " ">>,
     <<"a", " ", ">", "b">>,
     <<"1", ">">>}

LineEndings == {CRLF, <<LF>>}

\* an answer to a line query: leftover prompts and spaces, the text, the line
\* ending, the prompt
LineAnswers ==
    {p \o b \o e \o Prompt : p \in Prefixes, b \in LineBodies, e \in LineEndings}

LineQueries == {"get_volume", "is_playing", "get_time", "get_title"}

\* the command line a query function writes
QueryOf(f) ==
    CASE f = "get_volume" -> Cmd("volume", NoArg)
      [] f = "subtitles" -> Cmd("strack", NoArg)
      [] OTHER -> Cmd(f, NoArg)

\* the parts of a track row "|<spaces>[*]<index> - <title> (<duration>)<rest>"
RowSpaces ==
    {<<" ">>,
     <<" ", " ">>}
RowMarkers ==
    {<<>>,
     <<"*">>}
TrackIndexes ==
    {<<"1">>,
     <<"8">>,
     <<"1", "2">>,
     <<"2", "1", "4", "7", "4", "8", "3", "6", "4", "7">>,
     <<"2", "1", "4", "7", "4", "8", "3", "6", "4", "8">>}
TrackTitles ==
    {<<"a">>,
     <<"B", "a", "c", "h", " ", "(", "0", "0", ":", "0", "0", ":", "0", "1", ")", ".",
      "m", "p", "3">>,
     <<"a", " ", "-", " ", "b">>,
     <<"C", "h", "o", "p", "i", "n", " ", "N", "o", "c", "t", "u", "r", "n", "e", "s",
      ".", "m", "p", "3">>,
     <<"a", " ", "(", "b", ")">>}
TrackLengths ==
    {<<"0", "1", ":", "5", "0", ":", "5", "5">>,
     <<"0", "0", ":", "0", "0", ":", "0", "1">>}
TrackRests ==
    {<<>>,
     <<" ", "[", "p", "l", "a", "y", "e", "d", " ", "1", " ", "t", "i", "m", "e", "]">>,
     <<" ", "(", "0", "0", ":", "0", "0", ":", "0", "2">>}

TrackLines ==
    {<<"|">> \o sp \o mk \o ix \o <<" ", "-", " ">> \o ti \o <<" ", "(">> \o du \o <<")">> \o re :
        sp \in RowSpaces, mk \in RowMarkers, ix \in TrackIndexes, ti \in TrackTitles,
        du \in TrackLengths, re \in TrackRests}

\* lines that are no track row, or that hold one after other text
OtherLines ==
    {<<"+", "-", "-", "-", "-", "[", " ", "P", "l", "a", "y", "l", "i", "s", "t", " ",
      "-", " ", "p", "l", "a", "y", "l", "i", "s", "t", " ", "]">>,
     <<"+", "-", "-", "-", "-", "[", " ", "E", "n", "d", " ", "o", "f", " ", "p", "l",
      "a", "y", "l", "i", "s", "t", " ", "]">>,
     <<>>,
     <<"|", " ", "1", " ", "-", " ", "P", "l", "a", "y", "l", "i", "s", "t">>,
     <<"|", " ", "2", " ", "-", " ", "M", "e", "d", "i", "a", " ", "L", "i", "b", "r",
      "a", "r", "y">>,
     <<"|", " ", "1", " ", "-", " ", "a", " ", "(", "1", ":", "5", "0", ":", "5", "5",
      ")">>,
     <<"|", " ", "1", " ", "-", " ", "a", " ", "(", "0", "1", ":", "5", "0", ")">>,
     <<"|", " ", "1", " ", "-", " ", "a", " ", "(", "0", "1", ".", "5", "0", ".", "5",
      "5", ")">>,
     <<"|", " ", "1", " ", "-", " ", "a", "(", "0", "1", ":", "5", "0", ":", "5", "5",
      ")">>,
     <<"|", " ", "a", " ", "-", " ", "b", " ", "(", "0", "1", ":", "5", "0", ":", "5",
      "5", ")">>,
     <<"|", "1", " ", "-", " ", "a", " ", "(", "0", "1", ":", "5", "0", ":", "5", "5",
      ")">>,
     <<"|", " ", "1", " ", "a", " ", "(", "0", "1", ":", "5", "0", ":", "5", "5", ")">>,
     <<"|", " ", "1", " ", "-", " ", " ", "(", "0", "1", ":", "5", "0", ":", "5", "5",
      ")">>,
     <<"x", "|", " ", "1", " ", "-", " ", "a", " ", "(", "0", "1", ":", "5", "0", ":",
      "5", "5", ")">>,
     <<" ", "|", " ", "*", "8", " ", "-", " ", "a", " ", "(", "0", "1", ":", "5", "0",
      ":", "5", "5", ")">>,
     <<"+", "-", "-", "-", "-", "[", " ", "x", " ", "]", " ", "|", " ", "1", " ", "-",
      " ", "a", " ", "(", "0", "1", ":", "5", "0", ":", "5", "5", ")">>}

\* the parts of a subtitle row "|<spaces><index> - <title>"
SubtitleIndexes ==
    {<<"-", "1">>,
     <<"2">>,
     <<"0">>,
     <<"1", "2">>,
     <<"2", "1", "4", "7", "4", "8", "3", "6", "4", "7">>,
     <<"2", "1", "4", "7", "4", "8", "3", "6", "4", "8">>,
     <<"-", "2", "1", "4", "7", "4", "8", "3", "6", "4", "8">>,
     <<"-", "2", "1", "4", "7", "4", "8", "3", "6", "4", "9">>}
SubtitleTitles ==
    {<<"D", "i", "s", "a", "b", "l", "e", " ", "*">>,
     <<"T", "r", "a", "c", "k", " ", "1", " ", "-", " ", "[", "E", "n", "g", "l", "i",
      "s", "h", "]">>,
     <<"a">>,
     <<"a", " ", "-", " ", "b", " ", "-", " ", "c">>,
     <<"a", " ">>}

SubtitleLines ==
    {<<"|">> \o sp \o ix \o <<" ", "-", " ">> \o ti :
        sp \in RowSpaces, ix \in SubtitleIndexes, ti \in SubtitleTitles}
        \cup {SubtitleHead, SubtitleFoot}

\* an answer to a listing query: the lines of the listing, then the prompt
ListingAnswers ==
    {PlaylistText(n) \o Prompt : n \in 0..1}
        \cup {SubtitleText(b) \o Prompt : b \in BOOLEAN}
        \cup {l \o CRLF \o Prompt : l \in TrackLines \cup OtherLines \cup SubtitleLines}

AnswersOf(f) == IF f \in LineQueries THEN LineAnswers ELSE ListingAnswers

InitAnswer ==
    /\ Connected
    /\ op \in LineQueries \cup {"playlist", "subtitles"}
    /\ fn = op
    /\ pc = "read"
    /\ wire \in AnswersOf(op)
    /\ wbuf = <<>>
    /\ arg = NoArg
    /\ amt = MIN_VOLUME
    /\ line = <<>>
    /\ raw = <<>>
    /\ buf = <<>>
    /\ sent = <<QueryOf(op)>>
    /\ result = Running
    /\ prev = [op |-> "none", arg |-> NoArg, tag |-> "None", changed |-> FALSE]
    /\ vlcVolume = 25
    /\ vlcTracks = 0
    /\ vlcPlaying = FALSE
    /\ wasPlaying = FALSE
    /\ ops = 1
    /\ envs = 0
    /\ ignores = 0
    /\ fails = 0
    /\ outstanding = 1
    /\ awaiting = TRUE
    /\ changed = FALSE

NextAnswer ==
    \/ get_volume
    \/ is_playing
    \/ get_time
    \/ get_title
    \/ playlist
    \/ subtitles

SpecAnswer == InitAnswer /\ [][NextAnswer]_vars

(***************************************************************************)
(* The convergence loops on their own: one call of set_volume, play or     *)
(* stop, on a session in which nothing or one prompt is left unread.  The  *)
(* client is sequential code and each of its blocking calls returns (the   *)
(* socket has read and write timeouts), so the next step of a loop is      *)
(* always taken: weak fairness on the loops' steps.  The player withholds  *)
(* the effect of at most MaxIgnore mutate commands, which is how it        *)
(* "eventually reports the target state".                                  *)
(***************************************************************************)
LoopOps == {"set_volume", "play", "stop"}

InitLoop ==
    /\ Connected
    /\ op \in LoopOps
    /\ arg \in ArgsOf(op)
    /\ amt = IF op = "set_volume" THEN ClampAmt(arg) ELSE MIN_VOLUME
    /\ fn = Entry(op)
    /\ pc = "write"
    /\ result = Running
    /\ wire \in {AfterGreeting, AfterGreeting \o Prompt}
    /\ wbuf = <<>>
    /\ line = <<>>
    /\ raw = <<>>
    /\ buf = <<>>
    /\ sent = <<>>
    /\ prev = [op |-> "none", arg |-> NoArg, tag |-> "None", changed |-> FALSE]
    /\ vlcVolume \in Volumes
    /\ vlcTracks \in {0, 1}
    /\ vlcPlaying \in {p \in BOOLEAN : p => vlcTracks > 0}
    /\ wasPlaying = vlcPlaying
    /\ ops = 1
    /\ envs = 0
    /\ ignores = 0
    /\ fails = 0
    /\ outstanding = 0
    /\ awaiting = FALSE
    /\ changed = FALSE

NextLoop ==
    \/ get_volume
    \/ set_volume
    \/ is_playing
    \/ play
    \/ stop
    \/ playlist

\* the steps of the three loops: the query of the loop condition and the
\* mutate command of the loop body (play's playlist() comes before its loop)
LoopStep ==
    \/ get_volume
    \/ set_volume
    \/ is_playing
    \/ play
    \/ stop

SpecLoop == InitLoop /\ [][NextLoop]_vars /\ WF_vars(LoopStep)

(***************************************************************************)
(* The life of a session: IoSocket::connect step by step against a player  *)
(* whose greeting arrives in pieces, or not at all, a few operations on    *)
(* the session connect returned, and the drop of the Client.               *)
(***************************************************************************)
\* what the peer sends on connection: the greeting, a bare prompt, or a
\* banner that no prompt follows
Greetings == {GreetingText, Prompt, Banner}

LifeOps == {"get_volume", "get_title", "next"}

InitLife ==
    /\ conn = "start"
    /\ pending \in Greetings
    /\ eof = FALSE
    /\ greeting = <<>>
    /\ shutRead = "none"
    /\ shutWrite = "none"
    /\ raised = FALSE
    /\ wire = <<>>
    /\ wbuf = <<>>
    /\ op = "none"
    /\ arg = NoArg
    /\ amt = MIN_VOLUME
    /\ fn = "none"
    /\ pc = "idle"
    /\ line = <<>>
    /\ raw = <<>>
    /\ buf = <<>>
    /\ sent = <<>>
    /\ result = NoResult
    /\ prev = [op |-> "none", arg |-> NoArg, tag |-> "None", changed |-> FALSE]
    /\ vlcVolume \in Volumes
    /\ vlcTracks \in {0, 1}
    /\ vlcPlaying \in {p \in BOOLEAN : p => vlcTracks > 0}
    /\ wasPlaying = vlcPlaying
    /\ ops = 0
    /\ envs = 0
    /\ ignores = 0
    /\ fails = 0
    /\ outstanding = 0
    /\ awaiting = FALSE
    /\ changed = FALSE

session == <<wbuf, op, arg, amt, fn, pc, line, raw, buf, sent, result, prev, wasPlaying,
             ops, envs, ignores, fails, outstanding, awaiting, changed>>

\* a call of connect that `?` leaves with the error
ConnectErr ==
    /\ conn' = "failed"
    /\ UNCHANGED <<wire, greeting>>

\* IoSocket::connect, one fallible call after the other
connect ==
    /\ \/ /\ conn = "start"          \* TcpStream::connect(addr)?
          /\ \/ conn' = "timeouts" /\ UNCHANGED <<wire, greeting>>
             \/ ConnectErr
       \/ /\ conn = "timeouts"       \* set_read_timeout(..)?; set_write_timeout(..)?
          /\ \/ conn' = "clone" /\ UNCHANGED <<wire, greeting>>
             \/ ConnectErr
       \/ /\ conn = "clone"          \* stream.try_clone()?
          /\ \/ conn' = "greeting" /\ UNCHANGED <<wire, greeting>>
             \/ ConnectErr
       \/ /\ conn = "greeting"       \* reader.read_until(PROMPT, &mut greeting)?
          /\ LET n == FirstIndex(wire, PROMPT, 1)
             IN  \/ /\ n > 0         \* the bytes up to and including PROMPT
                    /\ greeting' = SubSeq(wire, 1, n)
                    /\ wire' = SubSeq(wire, n + 1, Len(wire))
                    /\ conn' = "open"
                 \/ /\ n = 0         \* end of stream: Ok with the bytes there were
                    /\ eof
                    /\ greeting' = wire
                    /\ wire' = <<>>
                    /\ conn' = "open"
                 \/ /\ n = 0         \* READ_TIMEOUT passes before a PROMPT arrives
                    /\ ~eof
                    /\ ConnectErr
    /\ UNCHANGED <<pending, eof, shutRead, shutWrite, raised, session, player>>

\* the player sends the next piece of its greeting
GreetingArrives ==
    /\ conn \in {"timeouts", "clone", "greeting", "open"}
    /\ pc = "idle"
    /\ pending # <<>>
    /\ \E k \in 1..Len(pending) :
          /\ wire' = wire \o SubSeq(pending, 1, k)
          /\ pending' = SubSeq(pending, k + 1, Len(pending))
    /\ UNCHANGED <<conn, eof, greeting, shutRead, shutWrite, raised, session, player>>

\* the peer closes the stream while connect is under way; what it had not
\* sent is never sent
PeerCloses ==
    /\ conn \in {"timeouts", "clone", "greeting"}
    /\ ~eof
    /\ eof' = TRUE
    /\ pending' = <<>>
    /\ UNCHANGED <<wire, conn, greeting, shutRead, shutWrite, raised, session, player>>

\* the owner calls an operation on the session connect returned (once the
\* whole greeting has arrived; a session at the end of its stream is left
\* alone)
CallOpen ==
    /\ conn = "open"
    /\ pending = <<>>
    /\ ~eof
    /\ \E o \in LifeOps : Call(o, NoArg)

\* IoSocket::shutdown: the read side, then with `?` the write side
shutdown ==
    \E r \in {"ok", "err"} :
        /\ shutRead' = r
        /\ IF r = "err" THEN shutWrite' = "none" ELSE shutWrite' \in {"ok", "err"}

\* Drop for Client: `if let Ok(_) = self.socket.shutdown() {}`; whether a
\* failure of shutdown reaches the owner
Swallow(failed) == FALSE

\* the fields go: BufWriter's drop flushes what a failed flush left behind,
\* which reaches the player unless the write side has been shut down or the
\* write fails; the handles are closed
DropFields ==
    /\ wbuf' = <<>>
    /\ \/ UNCHANGED player
       \/ /\ wbuf # <<>>
          /\ shutWrite' # "ok"
          /\ LET st == PlayerRun(wbuf, [volume |-> vlcVolume, playing |-> vlcPlaying,
                                        tracks |-> vlcTracks, out |-> <<>>], TRUE)
             IN  /\ vlcVolume' = st.volume
                 /\ vlcPlaying' = st.playing
                 /\ vlcTracks' = st.tracks

\* the owner drops the Client
drop ==
    /\ conn = "open"
    /\ pc = "idle"
    /\ shutdown
    /\ raised' = Swallow(shutRead' # "ok" \/ shutWrite' # "ok")
    /\ DropFields
    /\ conn' = "dropped"
    /\ UNCHANGED <<wire, pending, eof, greeting, op, arg, amt, fn, pc, line, raw, buf, sent,
                   result, prev, wasPlaying, ops, envs, ignores, fails, outstanding,
                   awaiting, changed>>

NextLife ==
    \/ connect
    \/ GreetingArrives
    \/ PeerCloses
    \/ CallOpen
    \/ get_volume
    \/ get_title
    \/ next
    \/ drop

SpecLife == InitLife /\ [][NextLife]_vars

(***************************************************************************)
(* Vocabulary of the properties.                                           *)
(***************************************************************************)
\* facade operation o has returned
Returned(o) == op = o /\ pc = "idle"
\* a command line is written in this step
Writes == Len(sent') > Len(sent)
\* the operation before this one was o, it succeeded, and the player has not
\* changed on its own since
RightAfterOk(o) == prev.op = o /\ prev.tag = "Ok" /\ ~prev.changed
Min(a, b) == IF a <= b THEN a ELSE b
Count(seq, c) == Cardinality({i \in 1..Len(seq) : seq[i] = c})
IsPrefix(a, b) == Len(a) <= Len(b) /\ a = SubSeq(b, 1, Len(a))
\* a non-empty text of digits only, and the number it denotes
IsDigits(s) == s # <<>> /\ \A i \in 1..Len(s) : IsDigit(s[i])
RECURSIVE NatVal(_)
NatVal(s) == IF s = <<>> THEN 0 ELSE NatVal(SubSeq(s, 1, Len(s) - 1)) * 10 + DigitVal(s[Len(s)])

QVolume == Cmd("volume", NoArg)
QIsPlaying == Cmd("is_playing", NoArg)
QPlaylist == Cmd("playlist", NoArg)

C2_LastQuery ==
    (Returned("set_volume") /\ result.tag = "Ok")
        => GetVolumeResult(line) = Ok(Min(arg, MAX_VOLUME))

\* C2, second half: a get_volume right after a successful set_volume(V), the
\* player unchanged in between, returns min(V, 200) (or fails on the
\* transport).
C2_ThenGetVolume ==
    (Returned("get_volume") /\ RightAfterOk("set_volume"))
        => result \in {Ok(Min(prev.arg, MAX_VOLUME)), FromIoError}

\* C2: both halves.
C2_SetVolumeConverges == C2_LastQuery /\ C2_ThenGetVolume

(***************************************************************************)
(* C3                                                                      *)
(***************************************************************************)
\* what play writes: the playlist query, then is_playing queries, each one
\* but the last followed by "play"
PlayShape(q) ==
    /\ q # <<>>
    /\ q[1] = QPlaylist
    /\ \A i \in 2..Len(q) : q[i] = IF i % 2 = 0 THEN QIsPlaying ELSE Cmd("play", NoArg)

\* C3: with a non-empty playlist in the player, play() returns success only
\* after an is_playing query of its own was answered "1", having written
\* "play" after every query answered otherwise; and an is_playing right
\* after it, the player unchanged, returns true.
C3_PlayConverges ==
    /\ (Returned("play") /\ result.tag = "Ok" /\ vlcTracks > 0)
          => /\ PlayShape(sent)
             /\ sent[Len(sent)] = QIsPlaying
             /\ trim(line) = <<"1">>
    /\ (Returned("is_playing") /\ RightAfterOk("play") /\ vlcTracks > 0)
          => result \in {Ok(1), FromIoError}

(***************************************************************************)
(* C4                                                                      *)
(***************************************************************************)
\* C4, first half: when stop() returns success, the last is_playing query
\* it issued was answered with something other than "1".
C4_LastQuery ==
    (Returned("stop") /\ result.tag = "Ok")
        => /\ sent[Len(sent)] = QIsPlaying
           /\ trim(line) # <<"1">>

\* C4, second half: an is_playing right after a successful stop(), the
\* player unchanged in between, returns false (or fails on the transport).
C4_ThenIsPlaying ==
    (Returned("is_playing") /\ RightAfterOk("stop"))
        => result \in {Ok(0), FromIoError}

\* C4: both halves.
C4_StopConverges == C4_LastQuery /\ C4_ThenIsPlaying

(***************************************************************************)
(* C5                                                                      *)
(***************************************************************************)
\* C5: stop() called while the player is stopped writes one is_playing
\* query and no "stop", and returns success (unless the transport fails).
C5_StopIdempotent ==
    (Returned("stop") /\ ~wasPlaying /\ result.tag # "Io")
        => /\ sent = <<QIsPlaying>>
           /\ result = OkUnit

(***************************************************************************)
(* C6                                                                      *)
(***************************************************************************)
\* what set_volume(200) writes: volume queries, each one but the last
\* followed by "volume 200"
SetVolumeShape(q, target) ==
    \A i \in 1..Len(q) : q[i] = IF i % 2 = 1 THEN QVolume ELSE Cmd("volume", target)

\* C6: set_volume(amt) with amt above 200 runs as set_volume(200) does.  Both
\* run with the local amt at 200, write only volume queries and "volume 200",
\* go on exactly while the query does not return 200, and succeed when it
\* does; an error of a query or of a write is the result otherwise.
C6_ClampedRequest ==
    (op = "set_volume" /\ arg >= MAX_VOLUME)
        => /\ amt = MAX_VOLUME
           /\ SetVolumeShape(sent, MAX_VOLUME)
           /\ (pc = "idle" /\ result.tag = "Ok")
                 => GetVolumeResult(line) = Ok(MAX_VOLUME)
           /\ (fn = "set_volume") => GetVolumeResult(line) # Ok(MAX_VOLUME)

\* set_volume(255) has written "volume 200" and then succeeded
C6_Witness ==
    /\ Returned("set_volume")
    /\ arg = 255
    /\ result = OkUnit
    /\ Len(sent) >= 3
    /\ sent[2] = Cmd("volume", MAX_VOLUME)

(***************************************************************************)
(* C7                                                                      *)
(***************************************************************************)
\* C7 (as stated): for every unsigned integer read as the volume, get_volume
\* succeeds and returns min(reported, 200).
C7_EveryUnsigned ==
    (Returned("get_volume") /\ IsDigits(trim(line)))
        => result = Ok(Min(NatVal(trim(line)), MAX_VOLUME))

\* C7 (amended): for every unsigned integer up to 65535 read as the volume,
\* get_volume succeeds and returns min(reported, 200); a larger one is a
\* Parse error; a returned volume lies in [0, 200].
C7_EveryU16 ==
    /\ (Returned("get_volume") /\ IsDigits(trim(line)))
          => result = IF NatVal(trim(line)) <= U16_MAX
                      THEN Ok(Min(NatVal(trim(line)), MAX_VOLUME))
                      ELSE FromParseIntError
    /\ (Returned("get_volume") /\ result.tag = "Ok")
          => result.val \in MIN_VOLUME..MAX_VOLUME

\* get_volume has read "300" and returned 200
C7_Witness ==
    /\ Returned("get_volume")
    /\ trim(line) = <<"3", "0", "0">>
    /\ result = Ok(MAX_VOLUME)

(***************************************************************************)
(* C8                                                                      *)
(***************************************************************************)
\* C8: when the line read in answer to the volume query is, trimmed, not an
\* unsigned integer, get_volume returns the Parse error and has written
\* nothing but its query.
C8_ParseError ==
    (Returned("get_volume") /\ line # <<>> /\ ~IsDigits(trim(line)))
        => /\ result = FromParseIntError
           /\ sent = <<QVolume>>

\* get_volume has read a line of text that is no number
C8_Witness ==
    /\ Returned("get_volume")
    /\ line # <<>>
    /\ trim(line) # <<>>
    /\ ~IsDigits(trim(line))
    /\ result.tag = "ParseErr"

(***************************************************************************)
(* C9                                                                      *)
(***************************************************************************)
\* C9: when the playlist read by play() is empty, play() has written
\* nothing but the playlist query and returns success.
C9_EmptyPlaylist ==
    (Returned("play") /\ buf # <<>> /\ CollectTracks(lines(buf)) = <<>>)
        => /\ sent = <<QPlaylist>>
           /\ result = OkUnit

\* play() has read the listing of an empty playlist
C9_Witness ==
    /\ Returned("play")
    /\ vlcTracks = 0
    /\ Len(buf) > Len(PlaylistHead)
    /\ CollectTracks(lines(buf)) = <<>>
    /\ result = OkUnit

(***************************************************************************)
(* C10                                                                     *)
(***************************************************************************)
\* C10: pause() writes one is_playing query; answered "1", it then writes
\* "play" and "pause", in that order and nothing else; answered otherwise, it
\* writes nothing more and returns success.
C10_Pause ==
    (op = "pause")
        => /\ IsPrefix(sent, <<QIsPlaying, Cmd("play", NoArg), Cmd("pause", NoArg)>>)
           /\ (pc = "idle") =>
                 /\ Count(sent, QIsPlaying) = 1
                 /\ (line # <<>> /\ trim(line) = <<"1">>)
                       => sent = <<QIsPlaying, Cmd("play", NoArg), Cmd("pause", NoArg)>>
                 /\ (line # <<>> /\ trim(line) # <<"1">>)
                       => (sent = <<QIsPlaying>> /\ result = OkUnit)
                 /\ (line = <<>>) => (sent = <<QIsPlaying>> /\ result = FromIoError)

\* pause() has found the player playing and written "play" and "pause"
C10_Witness ==
    /\ Returned("pause")
    /\ wasPlaying
    /\ trim(line) = <<"1">>
    /\ sent = <<QIsPlaying, Cmd("play", NoArg), Cmd("pause", NoArg)>>
    /\ result = OkUnit

(***************************************************************************)
(* C11                                                                     *)
(***************************************************************************)
\* the suffix of r that begins at its first byte other than PROMPT and space
StripLeading(r) ==
    LET keep == {k \in 1..Len(r) : r[k] \notin {PROMPT, " "}}
    IN  IF keep = {} THEN <<>>
        ELSE SubSeq(r, CHOOSE k \in keep : \A j \in keep : k <= j, Len(r))

FirstLine(block) == lines(block)[1]
\* the block holds one line and, after it, the prompt
OneLine(block) == block # <<>> /\ Len(lines(block)) = 2

\* a <= b for two decimal numerals without leading zeros
DecLeq(a, b) ==
    \/ Len(a) < Len(b)
    \/ /\ Len(a) = Len(b)
       /\ \/ a = b
          \/ \E i \in 1..Len(a) :
                /\ DigitVal(a[i]) < DigitVal(b[i])
                /\ \A j \in 1..(i - 1) : a[j] = b[j]

\* The reading of a line as the track row
\*   "|<spaces>[*]<index><spaces>-<spaces><title> (<DD:DD:DD><close><rest>"
\* with the title running up to the last such duration; close is ")" for a
\* parenthesized duration and nothing for one that only opens.  <<>> when
\* the line is no such row.
RowReading(l, closed) ==
    LET p1 == 2 + SpaceRun(l, 2)
        p2 == IF p1 <= Len(l) /\ l[p1] = "*" THEN p1 + 1 ELSE p1
        p3 == p2 + DigitRun(l, p2)
        p4 == p3 + SpaceRun(l, p3)
        t  == p4 + 1 + SpaceRun(l, p4 + 1)
        qs == {q \in (t + 1)..Len(l) :
                  /\ q + 1 <= Len(l)
                  /\ l[q] = " "
                  /\ l[q + 1] = "("
                  /\ q + 9 <= Len(l)
                  /\ \A d \in {2, 3, 5, 6, 8, 9} : IsDigit(l[q + d])
                  /\ l[q + 4] = ":"
                  /\ l[q + 7] = ":"
                  /\ closed => (q + 10 <= Len(l) /\ l[q + 10] = ")")}
    IN  IF /\ l # <<>>
           /\ l[1] = "|"
           /\ p1 > 2
           /\ p3 > p2
           /\ p4 > p3
           /\ p4 <= Len(l)
           /\ l[p4] = "-"
           /\ t > p4 + 1
           /\ qs # {}
        THEN LET q == CHOOSE x \in qs : \A y \in qs : y <= x
             IN  <<[index  |-> SubSeq(l, p2, p3 - 1),
                    title  |-> SubSeq(l, t, q - 1),
                    length |-> SubSeq(l, q + 2, q + 9)]>>
        ELSE <<>>

\* the rows returned are the one track that reading r describes
YieldsTrack(rows, r) ==
    /\ Len(rows) = 1
    /\ Digits(rows[1].index) = r.index
    /\ rows[1].title = r.title
    /\ rows[1].length = r.length

\* C12 (as stated): a track row yields index = the integer, length = the
\* last parenthesized duration and title = everything between the separator
\* and that duration.
C12_TrackRow ==
    (Returned("playlist") /\ OneLine(buf) /\ RowReading(FirstLine(buf), TRUE) # <<>>)
        => YieldsTrack(result.rows, RowReading(FirstLine(buf), TRUE)[1])

\* C12 (amended): a track row whose index is at most 2147483647 yields index
\* = the integer, length = the DD:DD:DD of the last " (DD:DD:DD" of the line,
\* closed by ")" or not, and title = everything between the separator and
\* that duration; a row with a larger index yields no record.
C12_TrackRowI32 ==
    (Returned("playlist") /\ OneLine(buf) /\ RowReading(FirstLine(buf), FALSE) # <<>>)
        => LET r == RowReading(FirstLine(buf), FALSE)[1]
           IN  IF DecLeq(r.index, Digits(I32_MAX))
               THEN YieldsTrack(result.rows, r)
               ELSE result.rows = <<>>

\* playlist() has read "| *1 - Bach (00:00:01).mp3 (01:50:55)"
C12_Witness ==
    /\ Returned("playlist")
    /\ result.rows = <<[index  |-> 1,
                        title  |-> <<"B", "a", "c", "h", " ", "(", "0", "0", ":", "0",
                                    "0", ":", "0", "1", ")", ".", "m", "p", "3">>,
                        length |-> <<"0", "1", ":", "5", "0", ":", "5", "5">>]>>
    /\ RowReading(FirstLine(buf), TRUE) # <<>>
    /\ FirstLine(buf)[3] = "*"

(***************************************************************************)
(* C13                                                                     *)
(***************************************************************************)
\* C13 (as stated): a line that does not begin with the list-item delimiter,
\* and a list-item line without a parenthesized DD:DD:DD duration, yield no
\* track.
C13_NotATrackRow ==
    (Returned("playlist") /\ OneLine(buf) /\ RowReading(FirstLine(buf), TRUE) = <<>>)
        => result.rows = <<>>

\* a track row begins at some position of l
HoldsRow(l) ==
    \E k \in 1..Len(l) : RowReading(SubSeq(l, k, Len(l)), FALSE) # <<>>

\* C13 (amended): a line in which no track row begins at any position
\* yields no track; the row need not begin the line.
C13_NoRowAnywhere ==
    (Returned("playlist") /\ OneLine(buf) /\ ~HoldsRow(FirstLine(buf)))
        => result.rows = <<>>

\* playlist() has read "| 1 - Playlist" and returned no track
C13_Witness ==
    /\ Returned("playlist")
    /\ OneLine(buf)
    /\ FirstLine(buf) = PlaylistNode
    /\ result = OkRows(<<>>)

(***************************************************************************)
(* C14                                                                     *)
(***************************************************************************)
\* The reading of a line as the subtitle row
\*   "|<spaces>[-]<index><spaces>-<spaces><title>"
\* with the title running to the end of the line; <<>> when the line is no
\* such row.
SubtitleReading(l) ==
    LET p1 == 2 + SpaceRun(l, 2)
        p2 == IF p1 <= Len(l) /\ l[p1] = "-" THEN p1 + 1 ELSE p1
        p3 == p2 + DigitRun(l, p2)
        p4 == p3 + SpaceRun(l, p3)
        t  == p4 + 1 + SpaceRun(l, p4 + 1)
    IN  IF /\ l # <<>>
           /\ l[1] = "|"
           /\ p1 > 2
           /\ p3 > p2
           /\ p4 > p3
           /\ p4 <= Len(l)
           /\ l[p4] = "-"
           /\ t > p4 + 1
           /\ t <= Len(l)
        THEN <<[index |-> SubSeq(l, p1, p3 - 1), title |-> SubSeq(l, t, Len(l))]>>
        ELSE <<>>

\* the decimal numeral of an integer, with its sign
SignedDigits(n) ==
    IF n = I32_MIN THEN <<"-">> \o I32MinDigits
    ELSE IF n < 0 THEN <<"-">> \o Digits(0 - n)
    ELSE Digits(n)

\* the index numeral ix, signed, lies in the range of i32
FitsI32(ix) ==
    IF Head(ix) = "-" THEN DecLeq(StripZeros(Tail(ix)), I32MinDigits)
    ELSE DecLeq(StripZeros(ix), Digits(I32_MAX))

\* the rows returned are the one subtitle that reading r describes
YieldsSubtitle(rows, r) ==
    /\ Len(rows) = 1
    /\ SignedDigits(rows[1].index) = r.index
    /\ rows[1].title = r.title

\* C14 (as stated): a subtitle row yields its index, negative ones with
\* their sign, and as title the whole remainder of the line after the first
\* separator; the header and the footer yield no record.
C14_SubtitleRow ==
    (Returned("subtitles") /\ OneLine(buf))
        => /\ SubtitleReading(FirstLine(buf)) # <<>>
                 => YieldsSubtitle(result.rows, SubtitleReading(FirstLine(buf))[1])
           /\ FirstLine(buf) \in {SubtitleHead, SubtitleFoot} => result.rows = <<>>

\* C14 (amended): the same for an index from -2147483648 to 2147483647; a
\* row with an index outside that range yields no record.
C14_SubtitleRowI32 ==
    (Returned("subtitles") /\ OneLine(buf))
        => /\ SubtitleReading(FirstLine(buf)) # <<>>
                 => LET r == SubtitleReading(FirstLine(buf))[1]
                    IN  IF FitsI32(r.index)
                        THEN YieldsSubtitle(result.rows, r)
                        ELSE result.rows = <<>>
           /\ FirstLine(buf) \in {SubtitleHead, SubtitleFoot} => result.rows = <<>>

\* subtitles() has read "| -1 - Disable *"
C14_Witness ==
    /\ Returned("subtitles")
    /\ OneLine(buf)
    /\ FirstLine(buf) = SubtitleRow
    /\ result.rows = <<[index |-> 0 - 1,
                        title |-> <<"D", "i", "s", "a", "b", "l", "e", " ", "*">>]>>

(***************************************************************************)
(* C15                                                                     *)
(***************************************************************************)
NoTime == Res("Ok", 0, <<>>, <<>>)
SomeTime(numeral) == Res("Ok", 1, numeral, <<>>)

\* the canonical numeral of a run of digits
Canonical(d) ==
    IF \A k \in 1..Len(d) : d[k] = "0" THEN <<"0">>
    ELSE SubSeq(d, CHOOSE k \in 1..Len(d) :
                       d[k] # "0" /\ \A j \in 1..(k - 1) : d[j] = "0", Len(d))

\* the trimmed line without the '+' that an unsigned integer may carry
Unsigned(t) == IF t # <<>> /\ Head(t) = "+" THEN Tail(t) ELSE t

\* C15 (as stated): get_time succeeds whatever line it reads; it returns the
\* integer when the trimmed line is an unsigned integer and None when it is
\* not.
C15_EveryUnsigned ==
    (Returned("get_time") /\ raw # <<>>)
        => result = IF IsDigits(Unsigned(trim(line)))
                    THEN SomeTime(Canonical(Unsigned(trim(line))))
                    ELSE NoTime

\* C15 (amended): get_time succeeds whatever line it reads; it returns the
\* integer when the trimmed line is an unsigned integer up to 4294967295,
\* and None for every other line, a larger integer included.
C15_EveryU32 ==
    (Returned("get_time") /\ raw # <<>>)
        => result = IF /\ IsDigits(Unsigned(trim(line)))
                       /\ DecLeq(Canonical(Unsigned(trim(line))), U32MaxDigits)
                    THEN SomeTime(Canonical(Unsigned(trim(line))))
                    ELSE NoTime

\* get_time has read a line that is no number and returned None
C15_Witness ==
    /\ Returned("get_time")
    /\ trim(line) = <<"a", " ", "b">>
    /\ result = NoTime

(***************************************************************************)
(* C16                                                                     *)
(***************************************************************************)
NoTitle == Res("Ok", 0, <<>>, <<>>)

Blank(l) == \A k \in 1..Len(l) : IsSpace(l[k])

\* t is l without the whitespace at its two ends
IsTrimOf(t, l) ==
    /\ t # <<>>
    /\ ~IsSpace(t[1])
    /\ ~IsSpace(t[Len(t)])
    /\ \E i \in 1..Len(l) :
          /\ i + Len(t) - 1 <= Len(l)
          /\ SubSeq(l, i, i + Len(t) - 1) = t
          /\ Blank(SubSeq(l, 1, i - 1))
          /\ Blank(SubSeq(l, i + Len(t), Len(l)))

\* C16: get_title returns None exactly when the line it read is empty after
\* trimming, and the trimmed line otherwise; the title returned is never the
\* empty string.
C16_TitleOrNone ==
    (Returned("get_title") /\ raw # <<>>)
        => /\ result.tag = "Ok"
           /\ result = NoTitle <=> Blank(line)
           /\ result # NoTitle
                 => /\ result.val = 1
                    /\ IsTrimOf(result.txt, line)

\* get_title has read " >a b" and its line end, and returned "a b"
C16_Witness ==
    /\ Returned("get_title")
    /\ raw = <<" ", PROMPT, "a", " ", "b", CR, LF>>
    /\ result = Res("Ok", 1, <<"a", " ", "b">>, <<>>)

\* get_title has read a line of a line end only, and returned None
C16_WitnessNone ==
    /\ Returned("get_title")
    /\ raw = <<CR, LF>>
    /\ result = NoTitle

(***************************************************************************)
(* C17                                                                     *)
(***************************************************************************)
\* every operation of the session before the one in hand has succeeded (the
\* sessions looked at are those of at most two operations), and the player
\* has not changed on its own since the one in hand returned
AllBeforeOk == ops <= 2 /\ prev.tag \in {"None", "Ok"} /\ ~changed

\* C17: after successful operations only, playlist() returns the rows of the
\* listing the player sent in answer to its own "playlist" command, and
\* subtitles() those of the answer to its own listing command.
C17_OwnListing ==
    /\ (Returned("playlist") /\ result.tag = "Ok" /\ AllBeforeOk)
          => result.rows = CollectTracks(lines(PlaylistText(vlcTracks)))
    /\ (Returned("subtitles") /\ result.tag = "Ok" /\ AllBeforeOk)
          => result.rows = CollectSubtitles(lines(SubtitleText(vlcPlaying)))

(***************************************************************************)
(* C18                                                                     *)
(***************************************************************************)
\* what the player answers to line query q in its present state, and the
\* value that answer stands for
AnswerText(q) ==
    CASE q = "get_volume" -> Digits(vlcVolume)
      [] q = "is_playing" -> IF vlcPlaying THEN <<"1">> ELSE <<"0">>
      [] q = "get_time"   -> IF vlcPlaying THEN TimeText ELSE <<>>
      [] q = "get_title"  -> IF vlcPlaying THEN TitleText ELSE <<>>

AnswerValue(q) ==
    CASE q = "get_volume" -> IF vlcVolume > U16_MAX THEN FromParseIntError
                             ELSE Ok(Min(vlcVolume, MAX_VOLUME))
      [] q = "is_playing" -> Ok(IF vlcPlaying THEN 1 ELSE 0)
      [] q = "get_time"   -> IF vlcPlaying THEN SomeTime(TimeText) ELSE NoTime
      [] q = "get_title"  -> IF vlcPlaying THEN Res("Ok", 1, TitleText, <<>>) ELSE NoTitle

\* the stream holds prompt bytes and spaces only, and then the player's
\* answer to q
LeftoverThenAnswer(q) ==
    \E i \in 0..Len(wire) :
        /\ \A k \in 1..i : wire[k] \in {PROMPT, " "}
        /\ SubSeq(wire, i + 1, Len(wire)) = AnswerText(q) \o CRLF \o Prompt

\* C18: a line query whose read finds only prompt bytes and spaces ahead of
\* the player's answer returns the value of that answer, the value it
\* returns when nothing is left unread.
C18_AnswerBehindLeftover ==
    [][(/\ op \in LineQueries
        /\ fn = op
        /\ pc = "read"
        /\ pc' = "idle"
        /\ result'.tag # "Io"
        /\ LeftoverThenAnswer(op))
          => result' = AnswerValue(op)]_vars

\* get_volume after next(): the line read begins with the space left of the
\* greeting and the prompt that answered "next"
C18_Witness ==
    /\ Returned("get_volume")
    /\ prev.op = "next"
    /\ prev.tag = "Ok"
    /\ raw = <<" ", PROMPT, " ", "2", "5", CR, LF>>
    /\ result = Ok(25)

(***************************************************************************)
(* C19                                                                     *)
(***************************************************************************)
\* this step is a flush or a read that fails
TransportFails == fails' = fails + 1
\* this step is get_volume reading a line that is no volume
ParseFails ==
    /\ fn = "get_volume"
    /\ pc = "read"
    /\ fails' = fails
    /\ ParseU16(trim(line')) = NoVal

\* C19: a step of set_volume, play or stop that raises a Transport or Parse
\* error is the last step of the operation: it returns that error and has
\* written nothing more.
C19_ErrorEndsLoop ==
    [][(op \in LoopOps /\ pc # "idle" /\ (TransportFails \/ ParseFails))
          => /\ pc' = "idle"
             /\ fn' = "none"
             /\ sent' = sent
             /\ result' = IF TransportFails THEN FromIoError ELSE FromParseIntError]_vars

\* set_volume has written "volume <amt>", and its second query has failed
C19_Witness ==
    /\ Returned("set_volume")
    /\ sent = <<QVolume, Cmd("volume", amt), QVolume>>
    /\ result = FromIoError

\* play has failed in its loop after a "play" was written
C19_WitnessPlay ==
    /\ Returned("play")
    /\ Len(sent) >= 4
    /\ sent[3] = Cmd("play", NoArg)
    /\ result = FromIoError

(***************************************************************************)
(* C20                                                                     *)
(***************************************************************************)
\* this step is the loop's query answered, without error, with a state that
\* is not the target (NotTarget) or that is (Target)
LoopAnswer ==
    /\ op \in LoopOps
    /\ pc = "read"
    /\ fn = IF op = "set_volume" THEN "get_volume" ELSE "is_playing"
    /\ fails' = fails
    /\ op = "set_volume" => ParseU16(trim(line')) # NoVal

Target ==
    CASE op = "set_volume" -> Min(ParseU16(trim(line')), MAX_VOLUME) = amt
      [] op = "play"       -> trim(line') = <<"1">>
      [] op = "stop"       -> trim(line') # <<"1">>

\* the loop never stops by itself: a query answered with another state than
\* the target is followed by the mutate command, however many were written
\* before, and the operation returns success once the target is reported
C20_NoAttemptCap ==
    [][LoopAnswer => IF Target THEN pc' = "idle" /\ result' = OkUnit
                                ELSE pc' = "write" /\ fn' = op]_vars

\* the operation is in its loop: at the query of the loop condition or at
\* the mutate command of the loop body
InLoop == pc # "idle" /\ fn # "playlist"

\* every loop of set_volume, play or stop comes to its end
C20_Terminates == InLoop ~> (pc = "idle")

\* C20: with a player that reports the target state after finitely many
\* mutate commands, set_volume, play and stop return; and they have no
\* attempt cap, every answer short of the target being followed by one more
\* mutate command.
C20_LoopsConverge == C20_Terminates /\ C20_NoAttemptCap

\* stop has written "stop" twice, the player having withheld the effect of
\* the first, and has returned once the player reported it had stopped
C20_Witness ==
    /\ Returned("stop")
    /\ result = OkUnit
    /\ ignores = 1
    /\ sent = <<QIsPlaying, Cmd("stop", NoArg), QIsPlaying, Cmd("stop", NoArg), QIsPlaying>>

(***************************************************************************)
(* C21                                                                     *)
(***************************************************************************)
\* C21: once the session is dropped, a shutdown has been attempted on the
\* read side and on the write side, whatever the outcome of either, and no
\* failure has reached the owner.
C21_BothDirections ==
    conn = "dropped"
        => /\ shutRead \in {"ok", "err"}
           /\ shutWrite \in {"ok", "err"}
           /\ ~raised

\* what does hold of a dropped session: the read side was attempted, the
\* write side exactly when the read side succeeded, nothing reached the
\* owner and nothing is left in the writer
C21_ReadThenWrite ==
    conn = "dropped"
        => /\ shutRead \in {"ok", "err"}
           /\ shutWrite # "none" <=> shutRead = "ok"
           /\ ~raised
           /\ wbuf = <<>>

(***************************************************************************)
(* C22                                                                     *)
(***************************************************************************)
\* connect has returned a session
Returns == conn \in {"open", "dropped"}

\* g runs up to and including its first prompt byte
UpToFirstPrompt(g) ==
    /\ g # <<>>
    /\ g[Len(g)] = PROMPT
    /\ \A k \in 1..(Len(g) - 1) : g[k] # PROMPT

\* t holds a byte of the banner
HoldsBanner(t) == \E k \in 1..Len(t) : t[k] \in {"V", "L", "C"}

\* C22: a session that connect has returned has had its greeting consumed up
\* to and including the first prompt byte, and no read of it returns bytes
\* of the greeting; a connect whose greeting read failed, or whose stream
\* ended before a prompt byte, has returned no session.
C22_GreetingConsumed ==
    /\ Returns => UpToFirstPrompt(greeting)
    /\ Returns => ~HoldsBanner(raw) /\ ~HoldsBanner(buf) /\ ~HoldsBanner(wire)
    /\ conn = "failed" => op = "none"

\* what does hold: a session is returned after the greeting was consumed up
\* to and including the first prompt byte, or up to the end of the stream;
\* no read returns bytes of the greeting; a failed connect returns nothing
C22_PromptOrEndOfStream ==
    /\ Returns => \/ UpToFirstPrompt(greeting)
                  \/ eof /\ \A k \in 1..Len(greeting) : greeting[k] # PROMPT
    /\ Returns => ~HoldsBanner(raw) /\ ~HoldsBanner(buf) /\ ~HoldsBanner(wire)
    /\ conn = "failed" => op = "none"

====
